---- MODULE Spec2Model ----
(***************************************************************************)
(* Model of lightning_examples/augmentation_kornia/augmentation.py:        *)
(* the DataAugmentation and Preprocess modules, the CoolSystem            *)
(* LightningModule and the script that shows a batch, fits the model and   *)
(* reports the logged metrics.                                             *)
(*                                                                         *)
(* Tensors are sequences: a batch is a sequence of N samples, a sample a   *)
(* sequence of C channels, a channel a sequence of H rows, a row a         *)
(* sequence of W pixel values.  A float pixel v/255 is held as its         *)
(* numerator v.  The numeric kernels of torch / kornia / torchvision are   *)
(* opaque to the script; they are given small integer stand-ins that keep  *)
(* their shape behaviour and their data flow.                              *)
(***************************************************************************)
EXTENDS Integers, Sequences, FiniteSets, TLC

VARIABLES
    pc,          \* position of the script / of the driver inside trainer.fit
    self,        \* the CoolSystem instance
    metrics,     \* rows written through self.log (the CSV logger's file)
    optim,       \* <<>> or <<[optimizer, scheduler]>> from configure_optimizers
    loaders,     \* <<>> or <<[train, val]>>: the loaders the driver holds
    it,          \* <<>> or <<[which, order, pos]>>: the loader iteration in progress
    batch,       \* <<>> or <<b>>: the batch fetched for the next step
    epoch,       \* trainer.current_epoch
    global_step, \* trainer.global_step
    pending,     \* <<>> or <<loss>>: loss returned by training_step, not yet consumed
    last,        \* record of the last handler call (its inner calls, in order)
    ncalls,      \* number of handler calls made so far
    opened,      \* set of dataset constructions [train, by]
    raised,      \* TRUE once an exception left a handler
    report       \* <<>> or <<aggreg_metrics>>: result of the reporting cells

vars == <<pc, self, metrics, optim, loaders, it, batch, epoch, global_step,
          pending, last, ncalls, opened, raised, report>>

----------------------------------------------------------------------------
(* Bounds of the model *)

TrainLen == 3      \* samples in the train=True split
TestLen == 2       \* samples in the train=False split
ImgH == 1          \* image height
ImgW == 2          \* image width
NumClasses == 2    \* classes of the classifier
ParamMod == 3      \* model parameters are one value in 0..ParamMod-1
MaxH == 1          \* largest height handed to a stand-alone DataAugmentation
MaxW == 2          \* largest width handed to a stand-alone DataAugmentation

(* Program constants *)

NumChannels == 3   \* RGB images; RandomChannelShuffle permutes 3 channels
batch_size == 2    \* DataLoader(dataset, batch_size=32), scaled down
max_epochs == 2    \* Trainer(max_epochs=10), scaled down
P_flip == 75       \* RandomHorizontalFlip(p=0.75), in percent
P_shuffle == 75    \* RandomChannelShuffle(p=0.75), in percent
P_warp == 75       \* RandomThinPlateSpline(p=0.75), in percent
PixelMax == 255    \* x_out.float() / 255.0

----------------------------------------------------------------------------
(* Helpers *)

Min(a, b) == IF a < b THEN a ELSE b

Max(a, b) == IF a > b THEN a ELSE b

(* a sequence given as a function, evaluated element by element *)
Tup(f) == f \o <<>>

Reverse(s) == Tup([i \in 1..Len(s) |-> s[Len(s) + 1 - i]])

RECURSIVE SumSeq(_)
SumSeq(s) == IF s = <<>> THEN 0 ELSE Head(s) + SumSeq(Tail(s))

Perms(n) == {f \in [1..n -> 1..n] : \A i, j \in 1..n : f[i] = f[j] => i = j}

IdOrder(n) == [i \in 1..n |-> i]

(* shape of a non-empty batch tensor: (N, C, H, W) *)
Shape(x) == <<Len(x), Len(x[1]), Len(x[1][1]), Len(x[1][1][1])>>

(* every sample, channel and row of the batch has the same extent *)
Rectangular(x) ==
    \A i \in DOMAIN x :
        /\ Len(x[i]) = Len(x[1])
        /\ \A c \in DOMAIN x[i] :
              /\ Len(x[i][c]) = Len(x[1][1])
              /\ \A h \in DOMAIN x[i][c] : Len(x[i][c][h]) = Len(x[1][1][1])

----------------------------------------------------------------------------
(* Dataset: torchvision CIFAR10, read-only.  Sample i of a split is a raw   *)
(* HxWxC image with values 0..255 and an integer label.                     *)

RawPixel(train, i, h, w, c) ==
    ((IF train THEN 0 ELSE 101) + 37 * i + 11 * c + 5 * w + 3 * h) % (PixelMax + 1)

RawImage(train, i) ==
    Tup([h \in 1..ImgH |-> Tup([w \in 1..ImgW |-> Tup([c \in 1..NumChannels |->
        RawPixel(train, i, h, w, c)])])])

Label(train, i) == (i + (IF train THEN 0 ELSE 1)) % NumClasses

(* Preprocess.forward: np.array(x) is HxWxC; image_to_tensor(keepdim=True)   *)
(* permutes it to CxHxW; .float() / 255.0 scales it (held as numerators).   *)
Preprocess(x) ==
    LET x_tmp == x
        H == Len(x_tmp)
        W == Len(x_tmp[1])
        C == Len(x_tmp[1][1])
    IN Tup([c \in 1..C |-> Tup([h \in 1..H |-> Tup([w \in 1..W |-> x_tmp[h][w][c]])])])

(* CIFAR10(root, train=..., download=True, transform=...) *)
CIFAR10(train, transform) ==
    [train |-> train, transform |-> transform,
     len |-> IF train THEN TrainLen ELSE TestLen]

(* dataset[i]: the transform is applied per sample, at read time *)
GetItem(dataset, i) ==
    [x |-> IF dataset.transform = "Preprocess"
              THEN Preprocess(RawImage(dataset.train, i))
              ELSE RawImage(dataset.train, i),
     y |-> Label(dataset.train, i),
     id |-> <<dataset.train, i>>]

(* a loader built with shuffle=True *)
DataLoader_shuffled(dataset, bs) ==
    [dataset |-> dataset, batch_size |-> bs, shuffle |-> TRUE]

(* DataLoader(dataset, batch_size=...): shuffle is left at its default,      *)
(* False, so the sampler is the sequential one; drop_last defaults to False. *)
DataLoader(dataset, bs) ==
    [dataset |-> dataset, batch_size |-> bs, shuffle |-> FALSE]

(* the index orders one iteration of the loader can follow *)
SamplerOrders(loader) ==
    IF loader.shuffle THEN Perms(loader.dataset.len)
                      ELSE {IdOrder(loader.dataset.len)}

NumBatches(loader) ==
    (loader.dataset.len + loader.batch_size - 1) \div loader.batch_size

(* the k-th batch of an iteration that follows `order`: default collate *)
BatchAt(loader, order, k) ==
    LET lo == (k - 1) * loader.batch_size + 1
        hi == Min(k * loader.batch_size, loader.dataset.len)
        items == Tup([j \in 1..(hi - lo + 1) |-> GetItem(loader.dataset, order[lo + j - 1])])
    IN [x |-> Tup([j \in DOMAIN items |-> items[j].x]),
        y |-> Tup([j \in DOMAIN items |-> items[j].y]),
        ids |-> Tup([j \in DOMAIN items |-> items[j].id])]

(* every batch the loader can yield *)
BatchesOf(loader) ==
    {BatchAt(loader, o, k) : o \in SamplerOrders(loader), k \in 1..NumBatches(loader)}

----------------------------------------------------------------------------
(* DataAugmentation: kornia transforms.  Each transform draws its random    *)
(* parameters per sample; rnd[i] holds the draws for sample i:              *)
(*   flip    - TRUE when the flip fires                                      *)
(*   shuffle - <<>> when the shuffle does not fire, else the channel order  *)
(*   warp    - 0 when the warp does not fire, else the displacement          *)
(*   jitter  - the colour offset (read only when jitter is invoked)          *)

Gate(p) == {b \in BOOLEAN : (b => p > 0) /\ (~b => p < 100)}

WarpShifts == {1}

JitterDeltas == {-64, 64}

SampleParams(jit) ==
    [flip : Gate(P_flip),
     shuffle : {s \in {<<>>} : FALSE \in Gate(P_shuffle)}
               \cup {s \in Perms(NumChannels) : TRUE \in Gate(P_shuffle)},
     warp : {0 : b \in Gate(P_warp) \ {TRUE}} \cup {d \in WarpShifts : TRUE \in Gate(P_warp)},
     jitter : IF jit THEN JitterDeltas ELSE {0}]

RndFor(n, jit) == [1..n -> SampleParams(jit)]

(* RandomHorizontalFlip(p=0.75): mirrors the W axis of the samples it fires on *)
RandomHorizontalFlip(img, r) ==
    IF r.flip THEN Tup([c \in DOMAIN img |-> Tup([h \in DOMAIN img[c] |-> Reverse(img[c][h])])])
              ELSE img

(* RandomChannelShuffle(p=0.75): permutes the channels *)
RandomChannelShuffle(img, r) ==
    IF r.shuffle = <<>> THEN img
    ELSE Tup([c \in DOMAIN img |-> img[r.shuffle[c]]])

(* a warp that drops the points falling outside instead of filling them *)
RandomThinPlateSpline_crops(img, r) ==
    IF r.warp = 0 THEN img
    ELSE Tup([c \in DOMAIN img |-> Tup([h \in DOMAIN img[c] |->
            SubSeq(img[c][h], 1 + r.warp, Len(img[c][h]))])])

(* RandomThinPlateSpline(p=0.75): resamples the image on a deformed grid of  *)
(* the same size; points that fall outside read as 0.                        *)
RandomThinPlateSpline(img, r) ==
    IF r.warp = 0 THEN img
    ELSE Tup([c \in DOMAIN img |-> Tup([h \in DOMAIN img[c] |->
            Tup([w \in DOMAIN img[c][h] |->
                IF w + r.warp \in DOMAIN img[c][h] THEN img[c][h][w + r.warp] ELSE 0])])])

(* ColorJitter(0.5, 0.5, 0.5, 0.5): shifts the values, clamped to [0, 1] *)
ColorJitter(img, r) ==
    Tup([c \in DOMAIN img |-> Tup([h \in DOMAIN img[c] |->
        Tup([w \in DOMAIN img[c][h] |-> Max(0, Min(PixelMax, img[c][h][w] + r.jitter))])])])

(* calling one kornia module on a batch *)
CallModule(name, x, rnd) ==
    Tup([i \in DOMAIN x |->
        CASE name = "RandomHorizontalFlip" -> RandomHorizontalFlip(x[i], rnd[i])
          [] name = "RandomChannelShuffle" -> RandomChannelShuffle(x[i], rnd[i])
          [] name = "RandomThinPlateSpline" -> RandomThinPlateSpline(x[i], rnd[i])
          [] name = "ColorJitter" -> ColorJitter(x[i], rnd[i])])

(* nn.Sequential.forward: each module gets the previous module's output.     *)
(* Returns the stages run, in order, each with its input and output.         *)
RECURSIVE Sequential(_, _, _)
Sequential(mods, x, rnd) ==
    IF mods = <<>> THEN <<>>
    ELSE LET out == CallModule(Head(mods), x, rnd)
         IN <<[name |-> Head(mods), in |-> x, out |-> out]>>
            \o Sequential(Tail(mods), out, rnd)

StagesOut(stages, x) == IF stages = <<>> THEN x ELSE stages[Len(stages)].out

(* the shuffle placed after the warp *)
DataAugmentation_reordered(apply_color_jitter) ==
    [apply_color_jitter |-> apply_color_jitter,
     transforms |-> <<"RandomHorizontalFlip", "RandomThinPlateSpline",
                      "RandomChannelShuffle">>,
     jitter |-> "ColorJitter"]

(* DataAugmentation.__init__(apply_color_jitter=False) *)
DataAugmentation(apply_color_jitter) ==
    [apply_color_jitter |-> apply_color_jitter,
     transforms |-> <<"RandomHorizontalFlip", "RandomChannelShuffle",
                      "RandomThinPlateSpline">>,
     jitter |-> "ColorJitter"]

DefaultApplyColorJitter == FALSE

(* a forward that applies the jitter whatever the flag says *)
DataAugmentation_forward_always_jitter(this, x, rnd) ==
    LET t1 == Sequential(this.transforms, x, rnd)
        x_out == StagesOut(t1, x)
        t2 == <<[name |-> this.jitter, in |-> x_out,
                 out |-> CallModule(this.jitter, x_out, rnd)]>>
    IN [out |-> StagesOut(t1 \o t2, x), stages |-> t1 \o t2]

(* DataAugmentation.forward *)
DataAugmentation_forward(this, x, rnd) ==
    LET t1 == Sequential(this.transforms, x, rnd)
        x_out == StagesOut(t1, x)
        t2 == IF this.apply_color_jitter
                 THEN <<[name |-> this.jitter, in |-> x_out,
                         out |-> CallModule(this.jitter, x_out, rnd)]>>
                 ELSE <<>>
    IN [out |-> StagesOut(t1 \o t2, x), stages |-> t1 \o t2]

----------------------------------------------------------------------------
(* CoolSystem.  Scalars (loss, accuracy) are fractions <<num, den>>.        *)

(* CoolSystem.__init__ *)
CoolSystem ==
    [model |-> 0,                                         \* resnet18(pretrained=True)
     preprocess |-> "Preprocess",
     transform |-> DataAugmentation(DefaultApplyColorJitter),
     accuracy |-> [correct |-> 0, total |-> 0]]           \* torchmetrics.Accuracy()

PixelSum(img) ==
    SumSeq(Tup([c \in DOMAIN img |->
        SumSeq(Tup([h \in DOMAIN img[c] |-> SumSeq(img[c][h])]))]))

(* self.model(x): one score per class and sample (stand-in for resnet18) *)
resnet18(params, x) ==
    Tup([i \in DOMAIN x |-> Tup([k \in 1..NumClasses |->
        (params * k + PixelSum(x[i]) \div (7 * k) + k) % 3])])

RECURSIVE Pow2(_)
Pow2(n) == IF n = 0 THEN 1 ELSE 2 * Pow2(n - 1)

(* F.softmax: each row becomes a distribution (base 2 in place of e) *)
softmax(z) ==
    Tup([i \in DOMAIN z |-> Tup([k \in DOMAIN z[i] |->
        <<Pow2(z[i][k]), SumSeq(Tup([j \in DOMAIN z[i] |-> Pow2(z[i][j])]))>>])])

(* CoolSystem.forward *)
forward(this, x) == softmax(resnet18(this.model, x))

(* index of the largest probability of a row, lowest index on ties *)
ArgMax(row) ==
    CHOOSE k \in DOMAIN row :
        /\ \A j \in DOMAIN row : row[j][1] <= row[k][1]
        /\ \A j \in DOMAIN row : row[j][1] = row[k][1] => k <= j

Hits(y_hat, y) == Cardinality({i \in DOMAIN y : ArgMax(y_hat[i]) - 1 = y[i]})

(* CoolSystem.compute_loss: F.cross_entropy, mean over the batch, >= 0 *)
compute_loss(y_hat, y) == <<Len(y) - Hits(y_hat, y), Len(y)>>

(* self.accuracy(y_hat, y): accumulates and returns the batch accuracy *)
Accuracy_call(acc, y_hat, y) ==
    [state |-> [correct |-> acc.correct + Hits(y_hat, y), total |-> acc.total + Len(y)],
     value |-> <<Hits(y_hat, y), Len(y)>>]

(* a log that keeps one row per metric name, overwriting the older one *)
log_overwrite(rows, ctx, name, value) ==
    Append(SelectSeq(rows, LAMBDA r : r.name # name),
           [name |-> name, step |-> ctx.step, epoch |-> ctx.epoch, value |-> value])

(* self.log(name, value): one row per call, tagged with the step and epoch *)
log(rows, ctx, name, value) ==
    Append(rows, [name |-> name, step |-> ctx.step, epoch |-> ctx.epoch, value |-> value])

(* the result of a handler: the instance and the log after it, its inner     *)
(* calls in order (and the stages run inside its transform call), what it    *)
(* returned and whether an exception left it                                 *)
Returned(this, rows, calls, stages, ret) ==
    [self |-> this, metrics |-> rows, calls |-> calls, stages |-> stages, ret |-> ret,
     raised |-> FALSE]

(* no try/except in the handlers: the exception leaves the handler at once *)
Raise(this, rows, calls, stages) ==
    [self |-> this, metrics |-> rows, calls |-> calls, stages |-> stages, ret |-> <<>>,
     raised |-> TRUE]

Call(fn, arg, ret) == [fn |-> fn, arg |-> arg, ret |-> ret]

TrainFaults == {"none", "transform", "forward", "compute_loss", "accuracy"}

ValFaults == {"none", "forward", "compute_loss", "accuracy"}

(* a training_step that records the accuracy before the loss *)
training_step_acc_first(this, rows, ctx, b, rnd, fault) ==
    LET aug == DataAugmentation_forward(this.transform, b.x, rnd)
        y_hat == forward(this, aug.out)
        loss == compute_loss(y_hat, b.y)
        acc == Accuracy_call(this.accuracy, y_hat, b.y)
        rows1 == log(rows, ctx, "train_acc", acc.value)
        rows2 == log(rows1, ctx, "train_loss", loss)
    IN IF fault # "none"
       THEN Raise(this, rows, <<Call("transform", <<b.x>>, <<>>)>>, <<>>)
       ELSE Returned([this EXCEPT !.accuracy = acc.state], rows2,
                <<Call("transform", <<b.x>>, <<aug.out>>),
                  Call("forward", <<aug.out>>, <<y_hat>>),
                  Call("compute_loss", <<y_hat, b.y>>, <<loss>>),
                  Call("accuracy", <<y_hat, b.y>>, <<acc.value>>),
                  Call("log", <<"train_acc", acc.value>>, <<>>),
                  Call("log", <<"train_loss", loss>>, <<>>)>>, aug.stages, <<loss>>)

(* CoolSystem.training_step; `fault` names the inner call that raises *)
training_step(this, rows, ctx, b, rnd, fault) ==
    LET x == b.x
        y == b.y
        aug == DataAugmentation_forward(this.transform, x, rnd)
        x_aug == aug.out
        y_hat == forward(this, x_aug)
        loss == compute_loss(y_hat, y)
        rows1 == log(rows, ctx, "train_loss", loss)
        acc == Accuracy_call(this.accuracy, y_hat, y)
        rows2 == log(rows1, ctx, "train_acc", acc.value)
        c1 == Call("transform", <<x>>, <<x_aug>>)
        c2 == Call("forward", <<x_aug>>, <<y_hat>>)
        c3 == Call("compute_loss", <<y_hat, y>>, <<loss>>)
        c4 == Call("log", <<"train_loss", loss>>, <<>>)
        c5 == Call("accuracy", <<y_hat, y>>, <<acc.value>>)
        c6 == Call("log", <<"train_acc", acc.value>>, <<>>)
    IN CASE fault = "transform" -> Raise(this, rows, <<Call("transform", <<x>>, <<>>)>>, <<>>)
         [] fault = "forward" -> Raise(this, rows, <<c1, Call("forward", <<x_aug>>, <<>>)>>, aug.stages)
         [] fault = "compute_loss" ->
                Raise(this, rows, <<c1, c2, Call("compute_loss", <<y_hat, y>>, <<>>)>>, aug.stages)
         [] fault = "accuracy" ->
                Raise(this, rows1, <<c1, c2, c3, c4, Call("accuracy", <<y_hat, y>>, <<>>)>>, aug.stages)
         [] OTHER ->
                Returned([this EXCEPT !.accuracy = acc.state], rows2,
                         <<c1, c2, c3, c4, c5, c6>>, aug.stages, <<loss>>)

(* a validation_step that also takes an optimisation step on the model *)
validation_step_updates_model(this, rows, ctx, b, fault) ==
    LET y_hat == forward(this, b.x)
        loss == compute_loss(y_hat, b.y)
        acc == Accuracy_call(this.accuracy, y_hat, b.y)
        rows2 == log(log(rows, ctx, "valid_loss", loss), ctx, "valid_acc", acc.value)
    IN IF fault # "none"
       THEN Raise(this, rows, <<Call("forward", <<b.x>>, <<>>)>>, <<>>)
       ELSE Returned([this EXCEPT !.accuracy = acc.state,
                                  !.model = (this.model + 1) % ParamMod], rows2,
                <<Call("forward", <<b.x>>, <<y_hat>>),
                  Call("compute_loss", <<y_hat, b.y>>, <<loss>>),
                  Call("log", <<"valid_loss", loss>>, <<>>),
                  Call("accuracy", <<y_hat, b.y>>, <<acc.value>>),
                  Call("log", <<"valid_acc", acc.value>>, <<>>)>>, <<>>, <<>>)

(* a validation_step copied from training_step, augmentation included *)
validation_step_augments(this, rows, ctx, b, fault) ==
    LET rnd == Tup([i \in DOMAIN b.x |-> [flip |-> TRUE, shuffle |-> <<>>, warp |-> 0, jitter |-> 0]])
        aug == DataAugmentation_forward(this.transform, b.x, rnd)
        y_hat == forward(this, aug.out)
        loss == compute_loss(y_hat, b.y)
        acc == Accuracy_call(this.accuracy, y_hat, b.y)
        rows2 == log(log(rows, ctx, "valid_loss", loss), ctx, "valid_acc", acc.value)
    IN IF fault # "none"
       THEN Raise(this, rows, <<Call("forward", <<b.x>>, <<>>)>>, aug.stages)
       ELSE Returned([this EXCEPT !.accuracy = acc.state], rows2,
                <<Call("transform", <<b.x>>, <<aug.out>>),
                  Call("forward", <<aug.out>>, <<y_hat>>),
                  Call("compute_loss", <<y_hat, b.y>>, <<loss>>),
                  Call("log", <<"valid_loss", loss>>, <<>>),
                  Call("accuracy", <<y_hat, b.y>>, <<acc.value>>),
                  Call("log", <<"valid_acc", acc.value>>, <<>>)>>, aug.stages, <<>>)

(* CoolSystem.validation_step *)
validation_step(this, rows, ctx, b, fault) ==
    LET x == b.x
        y == b.y
        y_hat == forward(this, x)
        loss == compute_loss(y_hat, y)
        rows1 == log(rows, ctx, "valid_loss", loss)
        acc == Accuracy_call(this.accuracy, y_hat, y)
        rows2 == log(rows1, ctx, "valid_acc", acc.value)
        c1 == Call("forward", <<x>>, <<y_hat>>)
        c2 == Call("compute_loss", <<y_hat, y>>, <<loss>>)
        c3 == Call("log", <<"valid_loss", loss>>, <<>>)
        c4 == Call("accuracy", <<y_hat, y>>, <<acc.value>>)
        c5 == Call("log", <<"valid_acc", acc.value>>, <<>>)
    IN CASE fault = "forward" -> Raise(this, rows, <<Call("forward", <<x>>, <<>>)>>, <<>>)
         [] fault = "compute_loss" ->
                Raise(this, rows, <<c1, Call("compute_loss", <<y_hat, y>>, <<>>)>>, <<>>)
         [] fault = "accuracy" ->
                Raise(this, rows1, <<c1, c2, c3, Call("accuracy", <<y_hat, y>>, <<>>)>>, <<>>)
         [] OTHER ->
                Returned([this EXCEPT !.accuracy = acc.state], rows2,
                         <<c1, c2, c3, c4, c5>>, <<>>, <<>>)

(* CoolSystem.configure_optimizers: AdamW(lr=1e-4) over the model's          *)
(* parameters, CosineAnnealingLR(optimizer, trainer.max_epochs, 0)           *)
configure_optimizers(this, trainer_max_epochs) ==
    [optimizer |-> [kind |-> "AdamW", over |-> "model.parameters", lr |-> <<1, 10000>>],
     scheduler |-> [kind |-> "CosineAnnealingLR", T_max |-> trainer_max_epochs,
                    eta_min |-> 0, steps |-> 0]]

(* CoolSystem.prepare_data: constructs (downloads) both splits *)
prepare_data(this) ==
    {[dataset |-> CIFAR10(TRUE, this.preprocess), by |-> "prepare_data"],
     [dataset |-> CIFAR10(FALSE, this.preprocess), by |-> "prepare_data"]}

(* CoolSystem.train_dataloader *)
train_dataloader(this) ==
    LET dataset == CIFAR10(TRUE, this.preprocess)
    IN DataLoader(dataset, batch_size)

(* a val_dataloader over the held-out split *)
val_dataloader_heldout(this) ==
    LET dataset == CIFAR10(FALSE, this.preprocess)
    IN DataLoader(dataset, batch_size)

(* CoolSystem.val_dataloader *)
val_dataloader(this) ==
    LET dataset == CIFAR10(TRUE, this.preprocess)
    IN DataLoader(dataset, batch_size)

(* CoolSystem.show_batch: first batch of a fresh train loader and its        *)
(* augmentation; only figures are produced                                   *)
show_batch(this, order, rnd) ==
    LET imgs == BatchAt(train_dataloader(this), order, 1).x
        aug == DataAugmentation_forward(this.transform, imgs, rnd)
    IN Returned(this, <<>>,
                <<Call("train_dataloader", <<>>, <<train_dataloader(this)>>),
                  Call("transform", <<imgs>>, <<aug.out>>),
                  Call("imshow", <<imgs>>, <<>>),
                  Call("imshow", <<aug.out>>, <<>>)>>, aug.stages, <<>>)

----------------------------------------------------------------------------
(* The script: model = CoolSystem(); model.show_batch(); trainer.fit(model); *)
(* then the reporting cells.  Inside trainer.fit the driver calls the hooks  *)
(* one at a time (a single thread of control): prepare_data,                 *)
(* configure_optimizers, the two loaders, then per epoch every train batch   *)
(* (training_step, then the optimizer update on the returned loss) and       *)
(* every validation batch (validation_step).  The driver's own steps are     *)
(* modelled only as far as the hooks of the script can observe them.         *)

LastCall(op, arg, calls, stages, ret, fault, exc) ==
    [op |-> op, arg |-> arg, calls |-> calls, stages |-> stages, ret |-> ret,
     fault |-> fault, raised |-> exc]

(* a driver that catches the exception and goes on with the next batch *)
AfterHandler_continue(exc, next) == IF exc THEN "train_fetch" ELSE next

(* nothing around trainer.fit or inside it catches: an exception that leaves *)
(* a hook ends the script                                                    *)
AfterHandler(exc, next) == IF exc THEN "failed" ELSE next

Ctx == [step |-> global_step, epoch |-> epoch]

Init ==
    /\ pc = "constructed"
    /\ self = CoolSystem
    /\ metrics = <<>>
    /\ optim = <<>>
    /\ loaders = [train |-> <<>>, val |-> <<>>]
    /\ it = <<>>
    /\ batch = <<>>
    /\ epoch = 0
    /\ global_step = 0
    /\ pending = <<>>
    /\ last = LastCall("__init__", <<>>, <<>>, <<>>, <<>>, "none", FALSE)
    /\ ncalls = 0
    /\ opened = {}
    /\ raised = FALSE
    /\ report = <<>>

(* model.show_batch(win_size=(14, 14)) *)
ShowBatch ==
    /\ pc = "constructed"
    /\ \E order \in SamplerOrders(train_dataloader(self)) :
       \E rnd \in RndFor(Len(BatchAt(train_dataloader(self), order, 1).x),
                         self.transform.apply_color_jitter) :
          LET r == show_batch(self, order, rnd)
          IN last' = LastCall("show_batch", <<>>, r.calls, r.stages, <<>>, "none", FALSE)
    /\ opened' = opened \cup {[dataset |-> train_dataloader(self).dataset,
                               by |-> "train_dataloader"]}
    /\ ncalls' = ncalls + 1
    /\ pc' = "shown"
    /\ UNCHANGED <<self, metrics, optim, loaders, it, batch, epoch, global_step,
                   pending, raised, report>>

(* trainer.fit: prepare_data hook *)
PrepareData ==
    /\ pc = "shown"
    /\ opened' = opened \cup prepare_data(self)
    /\ last' = LastCall("prepare_data", <<>>, <<>>, <<>>, <<>>, "none", FALSE)
    /\ ncalls' = ncalls + 1
    /\ pc' = "prepared"
    /\ UNCHANGED <<self, metrics, optim, loaders, it, batch, epoch, global_step,
                   pending, raised, report>>

(* trainer.fit: configure_optimizers hook *)
ConfigureOptimizers ==
    /\ pc = "prepared"
    /\ optim' = <<configure_optimizers(self, max_epochs)>>
    /\ last' = LastCall("configure_optimizers", <<>>, <<>>, <<>>, optim', "none", FALSE)
    /\ ncalls' = ncalls + 1
    /\ pc' = "configured"
    /\ UNCHANGED <<self, metrics, loaders, it, batch, epoch, global_step,
                   pending, opened, raised, report>>

(* trainer.fit: train_dataloader hook *)
TrainDataloader ==
    /\ pc = "configured"
    /\ loaders' = [loaders EXCEPT !.train = <<train_dataloader(self)>>]
    /\ opened' = opened \cup {[dataset |-> train_dataloader(self).dataset,
                               by |-> "train_dataloader"]}
    /\ last' = LastCall("train_dataloader", <<>>, <<>>, <<>>, loaders'.train, "none", FALSE)
    /\ ncalls' = ncalls + 1
    /\ pc' = "train_loader"
    /\ UNCHANGED <<self, metrics, optim, it, batch, epoch, global_step,
                   pending, raised, report>>

(* trainer.fit: val_dataloader hook *)
ValDataloader ==
    /\ pc = "train_loader"
    /\ loaders' = [loaders EXCEPT !.val = <<val_dataloader(self)>>]
    /\ opened' = opened \cup {[dataset |-> val_dataloader(self).dataset,
                               by |-> "val_dataloader"]}
    /\ last' = LastCall("val_dataloader", <<>>, <<>>, <<>>, loaders'.val, "none", FALSE)
    /\ ncalls' = ncalls + 1
    /\ pc' = "epoch_start"
    /\ UNCHANGED <<self, metrics, optim, it, batch, epoch, global_step,
                   pending, raised, report>>

(* the driver starts iterating a loader: the sampler fixes the index order *)
StartIteration(which, loader, next) ==
    /\ \E order \in SamplerOrders(loader) :
          it' = <<[which |-> which, loader |-> loader, order |-> order, pos |-> 0]>>
    /\ pc' = next
    /\ UNCHANGED <<self, metrics, optim, loaders, batch, epoch, global_step,
                   pending, last, ncalls, opened, raised, report>>

TrainEpochStart ==
    /\ pc = "epoch_start"
    /\ StartIteration("train", loaders.train[1], "train_fetch")

(* next(iterator): the dataset is read here, so a read error surfaces here *)
Fetch(at, step, done) ==
    /\ pc = at
    /\ it # <<>>
    /\ LET i == it[1]
       IN IF i.pos < NumBatches(i.loader)
          THEN \E io_error \in BOOLEAN :
                 IF io_error
                 THEN /\ raised' = TRUE
                      /\ pc' = AfterHandler(TRUE, step)
                      /\ UNCHANGED <<it, batch>>
                 ELSE /\ batch' = <<BatchAt(i.loader, i.order, i.pos + 1)>>
                      /\ it' = <<[i EXCEPT !.pos = i.pos + 1]>>
                      /\ pc' = step
                      /\ UNCHANGED raised
          ELSE /\ it' = <<>>
               /\ pc' = done
               /\ UNCHANGED <<batch, raised>>
    /\ UNCHANGED <<self, metrics, optim, loaders, epoch, global_step, pending,
                   last, ncalls, opened, report>>

FetchTrain == Fetch("train_fetch", "train_step", "val_start")

(* trainer.fit: training_step hook on the fetched batch *)
TrainingStep ==
    /\ pc = "train_step"
    /\ batch # <<>>
    /\ \E fault \in TrainFaults :
       \E rnd \in RndFor(Len(batch[1].x), self.transform.apply_color_jitter) :
          LET r == training_step(self, metrics, Ctx, batch[1], rnd, fault)
          IN /\ self' = r.self
             /\ metrics' = r.metrics
             /\ pending' = r.ret
             /\ raised' = r.raised
             /\ last' = LastCall("training_step", batch, r.calls, r.stages, r.ret,
                                 fault, r.raised)
             /\ pc' = AfterHandler(r.raised, "optimizer")
    /\ batch' = <<>>
    /\ ncalls' = ncalls + 1
    /\ UNCHANGED <<optim, loaders, it, epoch, global_step, opened, report>>

(* the driver's backward pass and optimizer.step() on the returned loss:     *)
(* the one place where the model's parameters are written                    *)
OptimizerStep ==
    /\ pc = "optimizer"
    /\ pending # <<>>
    /\ self' = [self EXCEPT !.model = (self.model + pending[1][1]) % ParamMod]
    /\ pending' = <<>>
    /\ global_step' = global_step + 1
    /\ last' = LastCall("optimizer.step", pending, <<>>, <<>>, <<>>, "none", FALSE)
    /\ pc' = "train_fetch"
    /\ UNCHANGED <<metrics, optim, loaders, it, batch, epoch, ncalls, opened,
                   raised, report>>

ValEpochStart ==
    /\ pc = "val_start"
    /\ StartIteration("val", loaders.val[1], "val_fetch")

FetchVal == Fetch("val_fetch", "val_step", "epoch_end")

(* trainer.fit: validation_step hook on the fetched batch *)
ValidationStep ==
    /\ pc = "val_step"
    /\ batch # <<>>
    /\ \E fault \in ValFaults :
          LET r == validation_step(self, metrics, Ctx, batch[1], fault)
          IN /\ self' = r.self
             /\ metrics' = r.metrics
             /\ raised' = r.raised
             /\ last' = LastCall("validation_step", batch, r.calls, r.stages, r.ret,
                                 fault, r.raised)
             /\ pc' = AfterHandler(r.raised, "val_fetch")
    /\ batch' = <<>>
    /\ ncalls' = ncalls + 1
    /\ UNCHANGED <<optim, loaders, it, epoch, global_step, pending, opened, report>>

(* end of an epoch: scheduler.step(); fit returns after max_epochs epochs *)
EpochEnd ==
    /\ pc = "epoch_end"
    /\ optim' = <<[optim[1] EXCEPT !.scheduler.steps = @ + 1]>>
    /\ epoch' = epoch + 1
    /\ pc' = IF epoch + 1 < max_epochs THEN "epoch_start" ELSE "fit_done"
    /\ UNCHANGED <<self, metrics, loaders, it, batch, global_step, pending, last,
                   ncalls, opened, raised, report>>

(* reporting cells: read metrics.csv, group by epoch, mean per column *)
Epochs(rows) == {rows[i].epoch : i \in DOMAIN rows}

ColumnMean(rows, e, name) ==
    LET sel == SelectSeq(rows, LAMBDA r : r.epoch = e /\ r.name = name)
    IN <<SumSeq(Tup([i \in DOMAIN sel |-> sel[i].value[1] * (batch_size \div sel[i].value[2])])),
         batch_size * Len(sel)>>

MetricNames == {"train_loss", "train_acc", "valid_loss", "valid_acc"}

Aggregate(rows) ==
    {[epoch |-> e, means |-> [n \in MetricNames |-> ColumnMean(rows, e, n)]] : e \in Epochs(rows)}

Report ==
    /\ pc = "fit_done"
    /\ report' = <<Aggregate(metrics)>>
    /\ last' = LastCall("report", <<metrics>>, <<>>, <<>>, report', "none", FALSE)
    /\ pc' = "reported"
    /\ UNCHANGED <<self, metrics, optim, loaders, it, batch, epoch, global_step,
                   pending, ncalls, opened, raised>>

Next ==
    \/ ShowBatch
    \/ PrepareData
    \/ ConfigureOptimizers
    \/ TrainDataloader
    \/ ValDataloader
    \/ TrainEpochStart
    \/ FetchTrain
    \/ TrainingStep
    \/ OptimizerStep
    \/ ValEpochStart
    \/ FetchVal
    \/ ValidationStep
    \/ EpochEnd
    \/ Report

Spec == Init /\ [][Next]_vars

----------------------------------------------------------------------------
(* DataAugmentation on its own: an instance built with either value of the  *)
(* flag, called once on a batch of shape (N, 3, H, W), N up to batch_size.   *)

AugBatch(N, H, W) ==
    Tup([i \in 1..N |-> Tup([c \in 1..NumChannels |-> Tup([h \in 1..H |->
        Tup([w \in 1..W |-> (50 * i + 20 * c + 7 * h + 3 * w) % (PixelMax + 1)])])])])

AugInputs == {AugBatch(N, H, W) : N \in 1..batch_size, H \in 1..MaxH, W \in 1..MaxW}

InitAug ==
    /\ pc = "aug"
    /\ \E flag \in BOOLEAN : self = [CoolSystem EXCEPT !.transform = DataAugmentation(flag)]
    /\ metrics = <<>>
    /\ optim = <<>>
    /\ loaders = [train |-> <<>>, val |-> <<>>]
    /\ it = <<>>
    /\ batch = <<>>
    /\ epoch = 0
    /\ global_step = 0
    /\ pending = <<>>
    /\ last = LastCall("__init__", <<>>, <<>>, <<>>, <<>>, "none", FALSE)
    /\ ncalls = 0
    /\ opened = {}
    /\ raised = FALSE
    /\ report = <<>>

AugForward ==
    /\ pc = "aug"
    /\ \E x \in AugInputs :
       \E rnd \in RndFor(Len(x), self.transform.apply_color_jitter) :
          LET r == DataAugmentation_forward(self.transform, x, rnd)
          IN last' = LastCall("DataAugmentation.forward", <<x>>, <<>>, r.stages,
                              <<r.out>>, "none", FALSE)
    /\ ncalls' = ncalls + 1
    /\ pc' = "aug_done"
    /\ UNCHANGED <<self, metrics, optim, loaders, it, batch, epoch, global_step,
                   pending, opened, raised, report>>

NextAug == AugForward

SpecAug == InitAug /\ [][NextAug]_vars

----------------------------------------------------------------------------
(* Properties *)

CallNames(calls) == Tup([i \in DOMAIN calls |-> calls[i].fn])

StageNames(stages) == Tup([i \in DOMAIN stages |-> stages[i].name])

IsPrefix(s, t) == Len(s) <= Len(t) /\ SubSeq(t, 1, Len(s)) = s

StepOps == {"training_step", "validation_step"}

TrainCalls == <<"transform", "forward", "compute_loss", "log", "accuracy", "log">>

ValCalls == <<"forward", "compute_loss", "log", "accuracy", "log">>

(* C1: the model parameters change only in the optimizer update that        *)
(* consumes the loss a training_step returned; no hook writes them, and a   *)
(* validation_step leaves them exactly as they were before the call.        *)
C1_ParamsOnlyByOptimizer ==
    [][/\ self'.model # self.model =>
            /\ pc = "optimizer"
            /\ last.op = "training_step"
            /\ pending # <<>>
            /\ pending = last.ret
            /\ last'.op = "optimizer.step"
       /\ ncalls' # ncalls => self'.model = self.model
       /\ last'.op = "validation_step" => self'.model = self.model]_vars

C1_Witness ==
    /\ last.op = "validation_step"
    /\ ~last.raised
    /\ self.model # CoolSystem.model

(* C2: validation_step never calls DataAugmentation and passes to forward   *)
(* exactly the x of the batch the loader gave; training_step passes to      *)
(* forward the output of DataAugmentation applied to the batch's x.         *)
C2_ValidationUnaugmented ==
    /\ last.op = "validation_step" =>
          /\ IsPrefix(CallNames(last.calls), ValCalls)
          /\ \A i \in DOMAIN last.calls : last.calls[i].fn # "transform"
          /\ last.stages = <<>>
          /\ last.arg[1] \in BatchesOf(loaders.val[1])
          /\ \A i \in DOMAIN last.calls :
                last.calls[i].fn = "forward" => last.calls[i].arg = <<last.arg[1].x>>
          /\ ~last.raised => \E i \in DOMAIN last.calls : last.calls[i].fn = "forward"
    /\ last.op = "training_step" =>
          /\ last.arg[1] \in BatchesOf(loaders.train[1])
          /\ \A i \in DOMAIN last.calls :
                last.calls[i].fn = "forward" =>
                   /\ i = 2
                   /\ last.calls[1].fn = "transform"
                   /\ last.calls[1].arg = <<last.arg[1].x>>
                   /\ last.calls[1].ret = <<StagesOut(last.stages, last.arg[1].x)>>
                   /\ Len(last.stages) >= Len(self.transform.transforms)
                   /\ last.calls[i].arg = last.calls[1].ret
          /\ ~last.raised => \E i \in DOMAIN last.calls : last.calls[i].fn = "forward"

C2_Witness ==
    /\ last.op = "validation_step"
    /\ ~last.raised
    /\ epoch = 1

(* C3: a training_step that returns has made exactly these calls, in this   *)
(* order: DataAugmentation on the batch, forward on the augmented batch,    *)
(* the loss against the labels, the train_loss row, the accuracy, the       *)
(* train_acc row; the value it returns is the one in its train_loss row.    *)
(* A training_step that raises has made a prefix of them.                   *)
C3_TrainingStepOrder ==
    last.op = "training_step" =>
       LET c == last.calls
           b == last.arg[1]
           n == Len(metrics)
       IN /\ IsPrefix(CallNames(c), TrainCalls)
          /\ ~last.raised =>
                /\ CallNames(c) = TrainCalls
                /\ c[1].arg = <<b.x>>
                /\ c[2].arg = c[1].ret
                /\ c[3].arg = <<c[2].ret[1], b.y>>
                /\ c[4].arg = <<"train_loss", c[3].ret[1]>>
                /\ c[5].arg = <<c[2].ret[1], b.y>>
                /\ c[6].arg = <<"train_acc", c[5].ret[1]>>
                /\ last.ret = c[3].ret
                /\ pending = last.ret
                /\ n >= 2
                /\ metrics[n - 1].name = "train_loss"
                /\ metrics[n - 1].value = last.ret[1]
                /\ metrics[n].name = "train_acc"
                /\ metrics[n].value = c[5].ret[1]

C3_Witness ==
    /\ last.op = "training_step"
    /\ ~last.raised
    /\ Len(last.arg[1].x) = batch_size
    /\ last.calls[1].ret # last.calls[1].arg

(* C4, as stated: every loader the driver iterates is a shuffling one.      *)
C4_Original ==
    \A i \in DOMAIN it : it[i].loader.shuffle

(* C4, amended: the loaders yield the samples in the dataset's stored index *)
(* order: batch k holds samples (k-1)*batch_size+1 .. min(k*batch_size,     *)
(* len) in that order, each the Preprocess of the stored image.             *)
C4_Amended ==
    batch # <<>> =>
       LET i == it[1]
           b == batch[1]
           ds == i.loader.dataset
           lo == (i.pos - 1) * batch_size + 1
           hi == Min(i.pos * batch_size, ds.len)
       IN /\ ~i.loader.shuffle
          /\ i.loader.batch_size = batch_size
          /\ Len(b.x) = hi - lo + 1
          /\ Len(b.y) = Len(b.x)
          /\ \A j \in DOMAIN b.x :
                /\ b.ids[j] = <<ds.train, lo + j - 1>>
                /\ b.x[j] = Preprocess(RawImage(ds.train, lo + j - 1))
                /\ b.y[j] = Label(ds.train, lo + j - 1)

C4_Witness ==
    /\ batch # <<>>
    /\ it[1].pos = 2
    /\ it[1].which = "train"

(* C5: DataAugmentation.forward invokes the colour jitter exactly when the  *)
(* instance was built with apply_color_jitter set; with the flag off (the   *)
(* default, which CoolSystem uses) only flip, shuffle and warp run and the  *)
(* result is the warp's output; no call changes the flag.                   *)
C5_JitterIffFlag ==
    [][/\ self'.transform.apply_color_jitter = self.transform.apply_color_jitter
       /\ DefaultApplyColorJitter = FALSE
       /\ CoolSystem.transform.apply_color_jitter = DefaultApplyColorJitter
       /\ last'.op = "DataAugmentation.forward" =>
             LET st == last'.stages
                 flag == self.transform.apply_color_jitter
             IN /\ (\E i \in DOMAIN st : st[i].name = "ColorJitter") <=> flag
                /\ flag => /\ Len(st) = 4
                           /\ st[4].name = "ColorJitter"
                           /\ last'.ret = <<st[4].out>>
                /\ ~flag => /\ StageNames(st) = <<"RandomHorizontalFlip",
                                                  "RandomChannelShuffle",
                                                  "RandomThinPlateSpline">>
                            /\ last'.ret = <<st[3].out>>]_vars

C5_Witness ==
    /\ last.op = "DataAugmentation.forward"
    /\ ~self.transform.apply_color_jitter
    /\ last.ret # last.arg

(* C6: every DataAugmentation.forward runs flip, then shuffle, then warp,   *)
(* then (only if enabled) jitter, each stage once, the first on the input   *)
(* and each later one on the previous stage's output.                       *)
C6_FixedOrder ==
    last.op = "DataAugmentation.forward" =>
       LET st == last.stages
       IN /\ StageNames(st) =
                <<"RandomHorizontalFlip", "RandomChannelShuffle", "RandomThinPlateSpline">>
                \o (IF self.transform.apply_color_jitter THEN <<"ColorJitter">> ELSE <<>>)
          /\ <<st[1].in>> = last.arg
          /\ \A i \in 2..Len(st) : st[i].in = st[i - 1].out
          /\ last.ret = <<st[Len(st)].out>>

C6_Witness ==
    /\ last.op = "DataAugmentation.forward"
    /\ Len(last.stages) = 4
    /\ \A i \in DOMAIN last.stages : last.stages[i].out # last.stages[i].in

(* C7: DataAugmentation.forward returns a batch of the shape of its input   *)
(* (N, 3, H, W), whichever transforms fire and with jitter on or off.       *)
C7_ShapePreserved ==
    last.op = "DataAugmentation.forward" =>
       /\ Shape(last.ret[1]) = Shape(last.arg[1])
       /\ Shape(last.ret[1])[2] = NumChannels
       /\ Rectangular(last.ret[1])
       /\ \A i \in DOMAIN last.stages :
             Shape(last.stages[i].out) = Shape(last.arg[1])

C7_Witness ==
    /\ last.op = "DataAugmentation.forward"
    /\ Shape(last.arg[1]) = <<batch_size, NumChannels, MaxH, MaxW>>
    /\ \A i \in 1..3 : last.stages[i].out # last.stages[i].in
    /\ \A i \in DOMAIN last.ret[1] : last.ret[1][i] # last.arg[1][i]

(* C8: the metric log only grows: every row written stays, unchanged; a     *)
(* training_step adds only train_loss and train_acc rows, a validation_step *)
(* only valid_loss and valid_acc rows, each tagged with the current step    *)
(* and epoch; nothing else, the reporting included, touches the log.        *)
C8_AppendOnly ==
    [][/\ IsPrefix(metrics, metrics')
       /\ LET new == SubSeq(metrics', Len(metrics) + 1, Len(metrics'))
              names == Tup([i \in DOMAIN new |-> new[i].name])
          IN /\ \A i \in DOMAIN new : new[i].step = global_step /\ new[i].epoch = epoch
             /\ IF ncalls' # ncalls /\ last'.op = "training_step"
                   THEN /\ IsPrefix(names, <<"train_loss", "train_acc">>)
                        /\ ~last'.raised => names = <<"train_loss", "train_acc">>
                ELSE IF ncalls' # ncalls /\ last'.op = "validation_step"
                   THEN /\ IsPrefix(names, <<"valid_loss", "valid_acc">>)
                        /\ ~last'.raised => names = <<"valid_loss", "valid_acc">>
                ELSE new = <<>>]_vars

C8_Witness ==
    /\ pc = "reported"
    /\ report # <<>>
    /\ Len(metrics) = 2 * max_epochs * (NumBatches(loaders.train[1]) + NumBatches(loaders.val[1]))

(* C9: a failure inside a step, or while a batch is read, leaves the hook   *)
(* as an exception and ends the run: the step returns nothing, nothing      *)
(* catches or retries it, and nothing at all happens after it.              *)
C9_FailureTerminates ==
    [][/\ raised => UNCHANGED vars
       /\ raised' => pc' = "failed"
       /\ (ncalls' # ncalls /\ last'.fault # "none") =>
             /\ last'.raised
             /\ raised'
             /\ last'.ret = <<>>
             /\ pending' = <<>>
       /\ pc' \in {"fit_done", "reported"} => ~raised']_vars

C9_Witness ==
    /\ raised
    /\ pc = "failed"
    /\ last.op = "training_step"
    /\ last.fault = "forward"
    /\ epoch = 1

(* C10: val_dataloader reads the same split as train_dataloader (train=True)*)
(* with the same Preprocess and batch size, so every batch a step sees is   *)
(* a batch of the train loader; the held-out split is only ever constructed *)
(* by prepare_data.                                                         *)
C10_ValUsesTrainSplit ==
    /\ loaders.val # <<>> =>
          /\ loaders.val[1].dataset.train
          /\ loaders.val[1].dataset = loaders.train[1].dataset
          /\ loaders.val[1].batch_size = loaders.train[1].batch_size
          /\ loaders.val[1].dataset.transform = self.preprocess
    /\ last.op \in StepOps =>
          /\ last.arg[1] \in BatchesOf(loaders.train[1])
          /\ \A j \in DOMAIN last.arg[1].ids : last.arg[1].ids[j][1]
    /\ \A i \in DOMAIN batch : \A j \in DOMAIN batch[i].ids : batch[i].ids[j][1]
    /\ \A o \in opened : ~o.dataset.train => o.by = "prepare_data"

C10_Witness ==
    /\ last.op = "validation_step"
    /\ ~last.raised
    /\ \E o \in opened : ~o.dataset.train

====
